---- MODULE Spec2Model ----
(***************************************************************************)
(* Model of netlify/functions/createCheckout.js: the serverless handler    *)
(* that turns a JSON list of purchase items into a Stripe Checkout         *)
(* Session.                                                                *)
(*                                                                         *)
(* A text that is parsed, quoted or compared (a request body, an error     *)
(* message, a response body, a property name, a string value) is the       *)
(* sequence of its UTF-16 code units, as a JavaScript string is; the       *)
(* comment above a sequence gives its characters.  JSON.parse is modelled  *)
(* code unit by code unit, with the SyntaxError messages and positions of  *)
(* V8 as shipped in Node 20, and JSON.stringify by the text it emits.      *)
(* JavaScript values are tagged records of one uniform shape.  A number is *)
(* an IEEE 754 double: zero, infinite, or m * 2^e with the significand m   *)
(* written as its decimal digits, each with a sign; a decimal literal is   *)
(* converted by exact arithmetic and rounded to nearest, ties to even.     *)
(*                                                                         *)
(* The handler is an async function: its synchronous prefix (method gate,  *)
(* parse, shape check, transform, issuing the provider call) runs to       *)
(* completion in one step, the provider settles the promise in a second    *)
(* step, and the continuation after `await` runs in a third.               *)
(***************************************************************************)
EXTENDS Integers, Sequences, FiniteSets, TLC

\* ------------------------------------------------------------------ bounds
NumInvocations == 2
MaxItems == 7

Invocations == 1..NumInvocations

\* ------------------------------------------------------- JavaScript values
\* A number.  kind "finite": the value is m * 2^e, m the sequence of the
\* decimal digits of the significand, 2^52 <= m < 2^53, or m < 2^52 and
\* e = -1074 for a subnormal.  neg is the sign bit (TRUE for -0 as well).
NumRec(kind, neg, m, e) == [kind |-> kind, neg |-> neg, m |-> m, e |-> e]
NoNum == NumRec("none", FALSE, <<>>, 0)

JsVal(t, s, num, elems, members) ==
    [t |-> t, s |-> s, num |-> num, elems |-> elems, members |-> members]

Undefined == JsVal("undefined", <<>>, NoNum, <<>>, <<>>)
Null      == JsVal("null", <<>>, NoNum, <<>>, <<>>)
True      == JsVal("true", <<>>, NoNum, <<>>, <<>>)
False     == JsVal("false", <<>>, NoNum, <<>>, <<>>)
Str(s)    == JsVal("str", s, NoNum, <<>>, <<>>)
Arr(es)   == JsVal("arr", <<>>, NoNum, es, <<>>)
Obj(ms)   == JsVal("obj", <<>>, NoNum, <<>>, ms)

\* +0 and -0
Zero(neg) == JsVal("num", <<>>, NumRec("zero", neg, <<>>, 0), <<>>, <<>>)
\* Infinity and -Infinity
Infinite(neg) ==
    JsVal("num", <<>>, NumRec("infinite", neg, <<>>, 0), <<>>, <<>>)
\* the double m * 2^e
Finite(neg, m, e) ==
    JsVal("num", <<>>, NumRec("finite", neg, m, e), <<>>, <<>>)
\* the literal 1 of line 45: 4503599627370496 * 2^-52
One == Finite(FALSE, <<4, 5, 0, 3, 5, 9, 9, 6, 2, 7, 3, 7, 0, 4, 9, 6>>, -52)

\* null or undefined
Nullish(v) == v.t \in {"null", "undefined"}

\* a shape check by typeof: any non-null object passes
IsArray_lax(v) == v.t \in {"arr", "obj"}

\* Array.isArray(v)
IsArray(v) == v.t = "arr"

\* ToBoolean(v), the operand test of `||`: false for undefined, null,
\* false, +0, -0 and the empty string (JSON.parse yields no NaN)
Truthy(v) ==
    CASE v.t = "undefined" -> FALSE
      [] v.t = "null"      -> FALSE
      [] v.t = "false"     -> FALSE
      [] v.t = "true"      -> TRUE
      [] v.t = "num"       -> v.num.kind /= "zero"
      [] v.t = "str"       -> v.s /= <<>>
      [] OTHER             -> TRUE

\* a ?? b: only null and undefined take the default
Or_nullish(a, b) == IF Nullish(a) THEN b ELSE a

\* a || b
Or(a, b) == IF Truthy(a) THEN a ELSE b

\* own property lookup in an object's member list (keys are unique)
Lookup(ms, k) ==
    IF \E i \in 1..Len(ms) : ms[i].k = k
    THEN ms[CHOOSE i \in 1..Len(ms) : ms[i].k = k].val
    ELSE Undefined

\* v.k for the property names the handler reads (items, name, price,
\* quantity): an object's own member, undefined on a primitive or an array.
\* Reading a property of null or undefined throws a TypeError, which the
\* callers test with Nullish before they call Get.
Get(v, k) == IF v.t = "obj" THEN Lookup(v.members, k) ELSE Undefined

\* Error objects: only name and message are observed
Error(name, message) == [name |-> name, message |-> message]
NoError == Error("", <<>>)

\* -------------------------------------------------------------- characters
\* the least member of a set of integers
Min(S) == CHOOSE a \in S : \A b \in S : a <= b

\* the code units of the characters the JSON grammar names
Ch == [tab |-> 9, lf |-> 10, ff |-> 12, cr |-> 13, bs |-> 8, space |-> 32,
       quote |-> 34, plus |-> 43, comma |-> 44, minus |-> 45, dot |-> 46,
       slash |-> 47, zero |-> 48, nine |-> 57, colon |-> 58,
       lbrack |-> 91, backslash |-> 92, rbrack |-> 93,
       lbrace |-> 123, rbrace |-> 125,
       E |-> 69, e |-> 101, b |-> 98, f |-> 102, n |-> 110, r |-> 114,
       t |-> 116, u |-> 117]

\* the JSON whitespace characters
Ws(c) == c \in {Ch.space, Ch.tab, Ch.lf, Ch.cr}
\* the characters below U+0020, which a string literal cannot hold
Control(c) == c < 32

IsDigit(c) == c >= Ch.zero /\ c <= Ch.nine
DigitVal(c) == c - Ch.zero
\* base::HexValue: -1 for a character that is no hex digit
HexVal(c) ==
    IF IsDigit(c) THEN c - 48
    ELSE IF c >= 97 /\ c <= 102 THEN c - 87
    ELSE IF c >= 65 /\ c <= 70 THEN c - 55
    ELSE -1
\* the lower-case hex digit of v in 0..15
HexDigit(v) == IF v < 10 THEN 48 + v ELSE 87 + v

\* the decimal digits of n >= 0, as digits
RECURSIVE Decimal(_)
Decimal(n) ==
    IF n < 10 THEN <<n>> ELSE Append(Decimal(n \div 10), n % 10)

\* the decimal digits of n >= 0, as characters
Digits(n) == [i \in 1..Len(Decimal(n)) |-> Ch.zero + Decimal(n)[i]]

\* the concatenation of parts[a..b]
RECURSIVE Flat(_, _, _)
Flat(parts, a, b) ==
    IF a > b THEN <<>>
    ELSE IF a = b THEN parts[a]
    ELSE LET mid == (a + b) \div 2
         IN  Flat(parts, a, mid) \o Flat(parts, mid + 1, b)

\* ------------------------------------------------- decimal text to double
\* Exact decimal arithmetic in limbs of four digits: the value of (l, p) is
\* the sum of l[i] * 10000^(p - i).  l has no zero limb at either end.
Base == 10000
Limbs(l, p) == [l |-> l, p |-> p]
Limb(l, i) == IF i >= 1 /\ i <= Len(l) THEN l[i] ELSE 0

\* drop a zero limb at either end (a shift produces at most one per end)
Trim(l, p) ==
    LET a == IF l[1] = 0 THEN 2 ELSE 1
        b == IF l[Len(l)] = 0 THEN Len(l) - 1 ELSE Len(l)
    IN  Limbs(SubSeq(l, a, b), p - (a - 1))

\* d * f for f in {2, 4, 8, 16}: f divides Base, so a limb takes a carry
\* from its right neighbour only
Times(d, f) ==
    Trim([i \in 1..(Len(d.l) + 1) |->
             ((Limb(d.l, i - 1) * f) % Base)
               + ((Limb(d.l, i) * f) \div Base)],
         d.p + 1)

\* d / f for f in {2, 4, 8, 16}: a limb takes the remainder of its left
\* neighbour only
Over(d, f) ==
    Trim([i \in 1..(Len(d.l) + 1) |->
             (Limb(d.l, i) \div f) + (Limb(d.l, i - 1) % f) * (Base \div f)],
         d.p)

Pow2 == <<2, 4, 8, 16>>

\* d * 2^s, s of either sign, in steps of at most four bits
RECURSIVE Scale(_, _)
Scale(d, s) ==
    IF d.l = <<>> \/ s = 0 THEN d
    ELSE IF s > 4
    THEN Scale(Scale(d, 4 * (((s \div 4) + 1) \div 2)),
               s - 4 * (((s \div 4) + 1) \div 2))
    ELSE IF s > 0 THEN Times(d, Pow2[s])
    ELSE IF s >= -4 THEN Over(d, Pow2[0 - s])
    ELSE Scale(Scale(d, 0 - 4 * ((((0 - s) \div 4) + 1) \div 2)),
               s + 4 * ((((0 - s) \div 4) + 1) \div 2))

\* the digits ds (no zero at either end) times 10^e10, in limbs
FromDigits(ds, e10) ==
    LET r    == e10 % 4
        padL == (4 - ((Len(ds) + r) % 4)) % 4
        n    == (padL + Len(ds) + r) \div 4
        Dg(j) == IF j > padL /\ j - padL <= Len(ds) THEN ds[j - padL] ELSE 0
    IN  Limbs([i \in 1..n |-> 1000 * Dg(4 * i - 3) + 100 * Dg(4 * i - 2)
                                + 10 * Dg(4 * i - 1) + Dg(4 * i)],
              n + ((e10 - r) \div 4))

\* the integer part of d < 10^16, as hi * 10^8 + lo
IntHi(d) == Limb(d.l, d.p - 3) * Base + Limb(d.l, d.p - 2)
IntLo(d) == Limb(d.l, d.p - 1) * Base + Limb(d.l, d.p)

\* d >= 2^53 = 9007199254740992
AtLeast2p53(d) ==
    \/ d.p > 4
    \/ d.p = 4 /\ \/ IntHi(d) > 90071992
                  \/ IntHi(d) = 90071992 /\ IntLo(d) >= 54740992

\* round the fraction of d to nearest, ties to even: TRUE to round up
RoundsUp(d) ==
    \/ Limb(d.l, d.p + 1) > 5000
    \/ /\ Limb(d.l, d.p + 1) = 5000
       /\ (Len(d.l) > d.p + 1 \/ Limb(d.l, d.p) % 2 = 1)

\* the digits of hi * 10^8 + lo
Significand(hi, lo) ==
    IF hi = 0 THEN Decimal(lo)
    ELSE Decimal(hi)
           \o [i \in 1..(8 - Len(Decimal(lo))) |-> 0] \o Decimal(lo)

\* the double (hi * 10^8 + lo) * 2^k, for hi * 10^8 + lo <= 2^53: 2^53 is
\* 2^52 with the next exponent, and an exponent above 971 is infinite
Pack(neg, hi, lo, k) ==
    IF hi = 0 /\ lo = 0 THEN Zero(neg)
    ELSE IF hi = 90071992 /\ lo = 54740992
    THEN (IF k + 1 > 971 THEN Infinite(neg)
          ELSE Finite(neg, Significand(45035996, 27370496), k + 1))
    ELSE IF k > 971 THEN Infinite(neg)
    ELSE Finite(neg, Significand(hi, lo), k)

\* the double nearest to d * 2^k, for d < 2^53
Round(neg, d, k) ==
    IF ~RoundsUp(d) THEN Pack(neg, IntHi(d), IntLo(d), k)
    ELSE IF IntLo(d) = 99999999 THEN Pack(neg, IntHi(d) + 1, 0, k)
    ELSE Pack(neg, IntHi(d), IntLo(d) + 1, k)

\* halve d until it is below 2^53
RECURSIVE Reduce(_, _, _)
Reduce(neg, d, k) ==
    IF AtLeast2p53(d) THEN Reduce(neg, Over(d, 2), k + 1)
    ELSE Round(neg, d, k)

\* a lower bound of floor(log2(x)) for x >= 10^e
Log2Floor(e) ==
    IF e >= 0 THEN (e * 3321928) \div 1000000
    ELSE 0 - ((((0 - e) * 3321929) + 999999) \div 1000000)

\* the binary exponent to start from for a value of decimal exponent e:
\* the significand has 53 bits, and no exponent is below -1074
StartExp(e) ==
    IF Log2Floor(e) - 52 < -1074 THEN -1074 ELSE Log2Floor(e) - 52

\* the double nearest to ds * 10^e10, for digits ds with no zero at either
\* end: 10^309 and above is infinite, below 10^-324 is zero
Nearest(neg, ds, e10) ==
    IF e10 + Len(ds) - 1 >= 309 THEN Infinite(neg)
    ELSE IF e10 + Len(ds) - 1 <= -325 THEN Zero(neg)
    ELSE Reduce(neg,
                Scale(FromDigits(ds, e10),
                      0 - StartExp(e10 + Len(ds) - 1)),
                StartExp(e10 + Len(ds) - 1))

\* the indices of the first and the last non-zero digit of ds
FirstNonZero(ds) == Min({i \in 1..Len(ds) : ds[i] /= 0})
LastNonZero(ds) ==
    Len(ds) + 1
      - Min({Len(ds) + 1 - i : i \in {j \in 1..Len(ds) : ds[j] /= 0}})

\* StringToDouble: the double nearest to the digits ds times 10^e10
StringToDouble(neg, ds, e10) ==
    IF \A i \in 1..Len(ds) : ds[i] = 0 THEN Zero(neg)
    ELSE Nearest(neg, SubSeq(ds, FirstNonZero(ds), LastNonZero(ds)),
                 e10 + Len(ds) - LastNonZero(ds))

\* -------------------------------------------------------------- JSON.parse
\* A parse step returns the value and the index of the next unread
\* character, or the SyntaxError message.  Indices are 1-based; the
\* positions in messages are 0-based, as the engine prints them.
POk(val, next) == [ok |-> TRUE,  val |-> val,  next |-> next, msg |-> <<>>]
PFail(msg)     == [ok |-> FALSE, val |-> Undefined, next |-> 0, msg |-> msg]

\* "<what> at position <pos>"
At(what, pos) == what \o <<32, 97, 116, 32, 112, 111, 115, 105, 116, 105,
        111, 110, 32>> \o Digits(pos)

\* "<what> in JSON at position <pos>"
AtPosition(what, pos) == At(what \o <<32, 105, 110, 32, 74, 83, 79, 78>>, pos)

\* kJsonParseUnexpectedEOS
\* Unexpected end of JSON input
EndOfInput == <<85, 110, 101, 120, 112, 101, 99, 116, 101, 100, 32, 101, 110,
        100, 32, 111, 102, 32, 74, 83, 79, 78, 32, 105, 110, 112, 117, 116>>

\* JsonParser::IsSpecialString: sources the engine names without a token
\* NaN
\* Infinity
\* undefined
\* [object Object]
ShortStrings == { <<78, 97, 78>>, <<73, 110, 102, 105, 110, 105, 116, 121>>,
      <<117, 110, 100, 101, 102, 105, 110, 101, 100>>, <<91, 111, 98, 106,
        101, 99, 116, 32, 79, 98, 106, 101, 99, 116, 93>> }

\* kJsonParseUnexpectedTokenShortString and its three variants with ten
\* characters of context, chosen by where the token stands in the source
UnexpectedToken(text, p) ==
    LET n    == Len(text)
        z    == p - 1
        \* Unexpected token '
        \* "', "
        head == <<85, 110, 101, 120, 112, 101, 99, 116, 101, 100, 32, 116,
                111, 107, 101, 110, 32, 39>> \o <<text[p]>> \o <<39, 44, 32>>
    IN  IF n < 21
        \* "
        \* " is not valid JSON
        THEN head \o <<34>> \o text \o <<34, 32, 105, 115, 32, 110, 111, 116,
                32, 118, 97, 108, 105, 100, 32, 74, 83, 79, 78>>
        ELSE IF z < 10
        \* "
        THEN head \o <<34>> \o SubSeq(text, 1, z + 10)
                  \* "... is not valid JSON
                  \o <<34, 46, 46, 46, 32, 105, 115, 32, 110, 111, 116, 32,
                       118, 97, 108, 105, 100, 32, 74, 83, 79, 78>>
        ELSE IF z < n - 10
        \* ..."
        THEN head \o <<46, 46, 46, 34>> \o SubSeq(text, z - 9, z + 10)
                  \* "... is not valid JSON
                  \o <<34, 46, 46, 46, 32, 105, 115, 32, 110, 111, 116, 32,
                       118, 97, 108, 105, 100, 32, 74, 83, 79, 78>>
        \* ..."
        ELSE head \o <<46, 46, 46, 34>> \o SubSeq(text, z - 9, n)
                  \* " is not valid JSON
                  \o <<34, 32, 105, 115, 32, 110, 111, 116, 32, 118, 97, 108,
                       105, 100, 32, 74, 83, 79, 78>>

\* JsonParser::ReportUnexpectedToken without a message of its own, for the
\* token at index p: the end of input, a string, a number, or any other
\* character
BadToken(text, p) ==
    IF p > Len(text) THEN EndOfInput
    \* Unexpected string
    ELSE IF text[p] = Ch.quote THEN AtPosition(<<85, 110, 101, 120, 112, 101,
            99, 116, 101, 100, 32, 115, 116, 114, 105, 110, 103>>, p - 1)
    ELSE IF IsDigit(text[p]) \/ text[p] = Ch.minus
    \* Unexpected number
    THEN AtPosition(<<85, 110, 101, 120, 112, 101, 99, 116, 101, 100, 32,
            110, 117, 109, 98, 101, 114>>, p - 1)
    \* "
    \* " is not valid JSON
    ELSE IF text \in ShortStrings THEN <<34>> \o text \o <<34, 32, 105, 115,
            32, 110, 111, 116, 32, 118, 97, 108, 105, 100, 32, 74, 83, 79,
            78>>
    ELSE UnexpectedToken(text, p)

\* the index of the first character at or after p that is not whitespace,
\* Len(text) + 1 when there is none
Skip(text, p) ==
    Min({q \in p..(Len(text) + 1) : q = Len(text) + 1 \/ ~Ws(text[q])})

\* the index of the first character at or after p that is not a digit
DigitsEnd(text, p) ==
    Min({q \in p..(Len(text) + 1) : q = Len(text) + 1 \/ ~IsDigit(text[q])})

\* the value of the digits text[a..b]
RECURSIVE DigitsValue(_, _, _)
DigitsValue(text, a, b) ==
    IF a > b THEN 0
    ELSE DigitsValue(text, a, b - 1) * 10 + DigitVal(text[b])

\* the value of the exponent digits text[a..b]; an exponent of more than
\* six digits is beyond every double and counts as 1000000
ExponentValue(text, a, b) ==
    LET lead == Min({q \in a..(b + 1) : q = b + 1 \/ text[q] /= Ch.zero})
    IN  IF b - lead + 1 > 6 THEN 1000000 ELSE DigitsValue(text, lead, b)

\* JsonParser::ScanLiteral: text[p] is the first character of word
ScanLiteral(text, p, word, val) ==
    LET n == Len(word)
        diff == {i \in 2..n :
                    p + i - 1 > Len(text) \/ text[p + i - 1] /= word[i]}
    IN  IF diff = {} THEN POk(val, p + n)
        ELSE PFail(BadToken(text, p + Min(diff) - 1))

\* the number whose integer digits are text[s..intEnd - 1], fraction digits
\* text[intEnd + 1..fracEnd - 1] (none when fracEnd = intEnd) and exponent
\* ex
NumberValue(text, neg, s, intEnd, fracEnd, ex) ==
    StringToDouble(neg,
        [i \in 1..(IF fracEnd > intEnd THEN fracEnd - s - 1 ELSE intEnd - s)
           |-> DigitVal(text[IF s + i - 1 < intEnd THEN s + i - 1
                             ELSE s + i])],
        ex - (IF fracEnd > intEnd THEN fracEnd - intEnd - 1 ELSE 0))

\* JsonParser::ParseJsonNumber: text[p] is "-" or a digit
ScanNumber(text, p) ==
    LET n      == Len(text)
        At0(q) == IF q <= n THEN text[q] ELSE -1
        neg    == text[p] = Ch.minus
        s      == IF neg THEN p + 1 ELSE p
        intEnd == IF At0(s) = Ch.zero THEN s + 1 ELSE DigitsEnd(text, s)
        hasFrac == At0(intEnd) = Ch.dot
        fracEnd == IF hasFrac THEN DigitsEnd(text, intEnd + 1) ELSE intEnd
        hasExp == At0(fracEnd) \in {Ch.e, Ch.E}
        expNeg == At0(fracEnd + 1) = Ch.minus
        expAt  == IF At0(fracEnd + 1) \in {Ch.plus, Ch.minus} THEN fracEnd + 2
                  ELSE fracEnd + 1
        expEnd == IF hasExp THEN DigitsEnd(text, expAt) ELSE fracEnd
    IN  IF ~IsDigit(At0(s))
        \* No number after minus sign
        THEN PFail(AtPosition(<<78, 111, 32, 110, 117, 109, 98, 101, 114, 32,
                97, 102, 116, 101, 114, 32, 109, 105, 110, 117, 115, 32, 115,
                105, 103, 110>>, s - 1))
        ELSE IF At0(s) = Ch.zero /\ IsDigit(At0(s + 1))
        \* Unexpected number
        THEN PFail(AtPosition(<<85, 110, 101, 120, 112, 101, 99, 116, 101,
                100, 32, 110, 117, 109, 98, 101, 114>>, s))
        ELSE IF hasFrac /\ ~IsDigit(At0(intEnd + 1))
        \* Unterminated fractional number
        THEN PFail(AtPosition(<<85, 110, 116, 101, 114, 109, 105, 110, 97,
                116, 101, 100, 32, 102, 114, 97, 99, 116, 105, 111, 110, 97,
                108, 32, 110, 117, 109, 98, 101, 114>>, intEnd))
        ELSE IF hasExp /\ ~IsDigit(At0(expAt))
        \* Exponent part is missing a number
        THEN PFail(AtPosition(<<69, 120, 112, 111, 110, 101, 110, 116, 32,
                112, 97, 114, 116, 32, 105, 115, 32, 109, 105, 115, 115, 105,
                110, 103, 32, 97, 32, 110, 117, 109, 98, 101, 114>>,
                              expAt - 1))
        ELSE POk(NumberValue(text, neg, s, intEnd, fracEnd,
                    IF ~hasExp THEN 0
                    ELSE IF expNeg
                    THEN 0 - ExponentValue(text, expAt, expEnd - 1)
                    ELSE ExponentValue(text, expAt, expEnd - 1)),
                 expEnd)
\* the characters that may follow a backslash in a string literal
EscapeChars ==
    {Ch.quote, Ch.backslash, Ch.slash, Ch.b, Ch.f, Ch.n, Ch.r, Ch.t, Ch.u}

\* the code unit an escape stands for: text[q] follows the backslash
Unescape(text, q) ==
    CASE text[q] = Ch.b -> Ch.bs
      [] text[q] = Ch.f -> Ch.ff
      [] text[q] = Ch.n -> Ch.lf
      [] text[q] = Ch.r -> Ch.cr
      [] text[q] = Ch.t -> Ch.tab
      [] text[q] = Ch.u ->
           ((HexVal(text[q + 1]) * 16 + HexVal(text[q + 2])) * 16
              + HexVal(text[q + 3])) * 16 + HexVal(text[q + 4])
      [] OTHER -> text[q]

\* JsonParser::ScanJsonString: text[p - 1] is the opening quote.  The scan
\* stops at the first closing quote or the first offending character,
\* whichever comes first.
ScanString(text, p) ==
    LET n == Len(text)
        \* the backslashes that end just before q, back to the opening quote
        Run(q) ==
            IF q = p \/ text[q - 1] /= Ch.backslash THEN 0
            ELSE Min({k \in 1..(q - p) :
                        k = q - p \/ text[q - 1 - k] /= Ch.backslash})
        \* text[q] is the character right after the backslash of an escape
        Esc(q) == Run(q) % 2 = 1
        \* text[q] is one of the four characters after a \u
        InU(q) == \E j \in (IF q - 4 > p THEN q - 4 ELSE p)..(q - 1) :
                      text[j] = Ch.u /\ Esc(j)
        quotes == {q \in p..n : text[q] = Ch.quote}
        closes == {q \in quotes : ~Esc(q) /\ ~InU(q)}
        close  == IF closes = {} THEN n + 1 ELSE Min(closes)
        \* the message for the character at q, <<>> when it is acceptable
        What(q) ==
            IF Esc(q)
            THEN IF q > n \/ text[q] > 255 THEN BadToken(text, q)
                 ELSE IF text[q] \in EscapeChars THEN <<>>
                 \* Bad escaped character
                 ELSE AtPosition(<<66, 97, 100, 32, 101, 115, 99, 97, 112,
                         101, 100, 32, 99, 104, 97, 114, 97, 99, 116, 101,
                         114>>, q - 1)
            ELSE IF InU(q)
            THEN IF q <= n /\ HexVal(text[q]) >= 0 THEN <<>>
                 \* Bad Unicode escape
                 ELSE AtPosition(<<66, 97, 100, 32, 85, 110, 105, 99, 111,
                         100, 101, 32, 101, 115, 99, 97, 112, 101>>, q - 1)
            ELSE IF q > n
            \* Unterminated string
            THEN AtPosition(<<85, 110, 116, 101, 114, 109, 105, 110, 97, 116,
                    101, 100, 32, 115, 116, 114, 105, 110, 103>>, q - 1)
            ELSE IF Control(text[q])
            \* Bad control character in string literal
            THEN AtPosition(<<66, 97, 100, 32, 99, 111, 110, 116, 114, 111,
                    108, 32, 99, 104, 97, 114, 97, 99, 116, 101, 114, 32,
                    105, 110, 32, 115, 116, 114, 105, 110, 103, 32, 108, 105,
                    116, 101, 114, 97, 108>>, q - 1)
            ELSE <<>>
        bad == {q \in p..close : (q < close \/ q > n) /\ What(q) /= <<>>}
        Part(q) ==
            IF Esc(q) THEN <<Unescape(text, q)>>
            ELSE IF InU(q) \/ text[q] = Ch.backslash THEN <<>>
            ELSE <<text[q]>>
    IN  IF bad /= {} THEN PFail(What(Min(bad)))
        ELSE POk(Str(Flat([q \in 1..(close - p) |-> Part(p + q - 1)],
                          1, close - p)),
                 close + 1)

\* a < b for the decimal texts of two integers of equal length
RECURSIVE DigitsLess(_, _, _)
DigitsLess(a, b, i) ==
    IF i > Len(a) THEN FALSE
    ELSE IF a[i] /= b[i] THEN a[i] < b[i]
    ELSE DigitsLess(a, b, i + 1)

\* a < b for the decimal texts of two integers without leading zeros
IndexLess(a, b) ==
    Len(a) < Len(b) \/ (Len(a) = Len(b) /\ DigitsLess(a, b, 1))

\* true when key is an array index: the canonical decimal text of an
\* integer in 0 .. 2^32 - 2
IsIndex(key) ==
    /\ key /= <<>>
    /\ \A i \in 1..Len(key) : IsDigit(key[i])
    /\ Len(key) = 1 \/ key[1] /= Ch.zero
    \* 4294967295
    /\ IndexLess(key, <<52, 50, 57, 52, 57, 54, 55, 50, 57, 53>>)

\* defining property k on the object being built: a repeated key keeps its
\* place and takes the later value; an array index goes among the indices,
\* which come first in ascending order; any other key goes last
SetMember(ms, k, v) ==
    LET m == [k |-> k, val |-> v]
        n == Len(ms)
        \* the members that stay in front of a new member k
        front == IF IsIndex(k)
                 THEN Cardinality({i \in 1..n :
                          IsIndex(ms[i].k) /\ IndexLess(ms[i].k, k)})
                 ELSE n
    IN  IF \E i \in 1..n : ms[i].k = k
        THEN [i \in 1..n |-> IF ms[i].k = k THEN m ELSE ms[i]]
        ELSE SubSeq(ms, 1, front) \o <<m>> \o SubSeq(ms, front + 1, n)

\* the character at index q is c
Is(text, q, c) == q <= Len(text) /\ text[q] = c

RECURSIVE ParseValue(_, _), ParseElems(_, _, _), ParseMembers(_, _, _, _)

\* after the elements acc of an array, at index q behind any whitespace:
\* a comma and a further element, or the closing bracket
ElemsSep(text, q, acc) ==
    IF Is(text, q, Ch.comma) THEN ParseElems(text, q + 1, acc)
    ELSE IF Is(text, q, Ch.rbrack) THEN POk(Arr(acc), q + 1)
    ELSE PFail(AtPosition(
           \* Expected ',' or ']' after array element
           <<69, 120, 112, 101, 99, 116, 101, 100, 32, 39, 44, 39, 32, 111,
             114, 32, 39, 93, 39, 32, 97, 102, 116, 101, 114, 32, 97, 114,
             114, 97, 121, 32, 101, 108, 101, 109, 101, 110, 116>>,
           q - 1))

\* r is the outcome of parsing the element that follows the elements acc
ElemsNext(text, acc, r) ==
    IF ~r.ok THEN r
    ELSE ElemsSep(text, Skip(text, r.next), Append(acc, r.val))

\* the rest of an array: text[p] starts the next element, acc holds the
\* elements before it
ParseElems(text, p, acc) == ElemsNext(text, acc, ParseValue(text, p))

\* at index k behind a comma and any whitespace: the next property name
MemberName(text, k, acc) ==
    IF Is(text, k, Ch.quote) THEN ParseMembers(text, k, acc, FALSE)
    ELSE PFail(AtPosition(
           \* Expected double-quoted property name
           <<69, 120, 112, 101, 99, 116, 101, 100, 32, 100, 111, 117, 98,
             108, 101, 45, 113, 117, 111, 116, 101, 100, 32, 112, 114, 111,
             112, 101, 114, 116, 121, 32, 110, 97, 109, 101>>,
           k - 1))

\* after the members acc of an object, at index q behind any whitespace:
\* a comma and a further member, or the closing brace
MemberSep(text, q, acc) ==
    IF Is(text, q, Ch.comma) THEN MemberName(text, Skip(text, q + 1), acc)
    ELSE IF Is(text, q, Ch.rbrace) THEN POk(Obj(acc), q + 1)
    ELSE PFail(AtPosition(
           \* Expected ',' or '}' after property value
           <<69, 120, 112, 101, 99, 116, 101, 100, 32, 39, 44, 39, 32, 111,
             114, 32, 39, 125, 39, 32, 97, 102, 116, 101, 114, 32, 112, 114,
             111, 112, 101, 114, 116, 121, 32, 118, 97, 108, 117, 101>>,
           q - 1))

\* r is the outcome of parsing the value of property k
MemberNext(text, acc, k, r) ==
    IF ~r.ok THEN r
    ELSE MemberSep(text, Skip(text, r.next), SetMember(acc, k, r.val))

\* after property name k, at index c behind any whitespace: the colon and
\* the value.  Only the first property of an object has a message of its
\* own for a missing colon; a later one reports the token found instead.
MemberValue(text, c, acc, k, first) ==
    IF Is(text, c, Ch.colon)
    THEN MemberNext(text, acc, k, ParseValue(text, c + 1))
    ELSE IF first
    THEN PFail(AtPosition(
           \* Expected ':' after property name
           <<69, 120, 112, 101, 99, 116, 101, 100, 32, 39, 58, 39, 32, 97,
             102, 116, 101, 114, 32, 112, 114, 111, 112, 101, 114, 116, 121,
             32, 110, 97, 109, 101>>,
           c - 1))
    ELSE PFail(BadToken(text, c))

\* key is the outcome of scanning a property name
MemberKey(text, acc, key, first) ==
    IF ~key.ok THEN key
    ELSE MemberValue(text, Skip(text, key.next), acc, key.val.s, first)

\* the rest of an object: text[p] is the opening quote of the next
\* property name, acc holds the members before it, first tells whether it
\* is the object's first property
ParseMembers(text, p, acc, first) ==
    MemberKey(text, acc, ScanString(text, p + 1), first)

\* behind "[" and any whitespace, at index k
ArrayAt(text, k) ==
    IF Is(text, k, Ch.rbrack) THEN POk(Arr(<<>>), k + 1)
    ELSE ParseElems(text, k, <<>>)

\* behind "{" and any whitespace, at index k
ObjectAt(text, k) ==
    IF Is(text, k, Ch.rbrace) THEN POk(Obj(<<>>), k + 1)
    ELSE IF Is(text, k, Ch.quote) THEN ParseMembers(text, k, <<>>, TRUE)
    ELSE PFail(AtPosition(
           \* Expected property name or '}'
           <<69, 120, 112, 101, 99, 116, 101, 100, 32, 112, 114, 111, 112,
             101, 114, 116, 121, 32, 110, 97, 109, 101, 32, 111, 114, 32, 39,
             125, 39>>,
           k - 1))

\* the value whose first character is at index q, or the end of input
ValueAt(text, q) ==
    IF q > Len(text) THEN PFail(EndOfInput)
    ELSE CASE text[q] = Ch.quote -> ScanString(text, q + 1)
           [] text[q] = Ch.minus \/ IsDigit(text[q]) -> ScanNumber(text, q)
           \* true
           [] text[q] = Ch.t -> ScanLiteral(text, q, <<116, 114, 117, 101>>
                 , True)
           \* false
           [] text[q] = Ch.f -> ScanLiteral(text, q, <<102, 97, 108, 115,
                   101>>, False)
           \* null
           [] text[q] = Ch.n -> ScanLiteral(text, q, <<110, 117, 108, 108>>
                 , Null)
           [] text[q] = Ch.lbrack -> ArrayAt(text, Skip(text, q + 1))
           [] text[q] = Ch.lbrace -> ObjectAt(text, Skip(text, q + 1))
           [] OTHER -> PFail(BadToken(text, q))

\* JsonParser::ParseJsonValue: one value, after any whitespace from index p
ParseValue(text, p) == ValueAt(text, Skip(text, p))

\* at index q behind the value and any whitespace: the end of input
Trailing(text, q, r) ==
    IF q <= Len(text)
    THEN PFail(At(
           \* Unexpected non-whitespace character after JSON
           <<85, 110, 101, 120, 112, 101, 99, 116, 101, 100, 32, 110, 111,
             110, 45, 119, 104, 105, 116, 101, 115, 112, 97, 99, 101, 32, 99,
             104, 97, 114, 97, 99, 116, 101, 114, 32, 97, 102, 116, 101, 114,
             32, 74, 83, 79, 78>>,
           q - 1))
    ELSE r

\* r is the outcome of parsing the one value of the text
Whole(text, r) == IF ~r.ok THEN r ELSE Trailing(text, Skip(text, r.next), r)

\* JSON.parse(text): one value, then nothing but whitespace
JSONparse(text) == Whole(text, ParseValue(text, 1))

\* ---------------------------------------------------------- JSON.stringify
HighSurrogate(c) == c >= 55296 /\ c <= 56319
LowSurrogate(c)  == c >= 56320 /\ c <= 57343

\* \uXXXX with lower-case hex digits
UnicodeEscape(c) ==
    <<Ch.backslash, Ch.u, HexDigit(c \div 4096), HexDigit((c \div 256) % 16),
      HexDigit((c \div 16) % 16), HexDigit(c % 16)>>

\* what QuoteJSONString emits for s[i]: the short escapes, \u00XX for the
\* other characters below U+0020, \uXXXX for a surrogate without its
\* partner, the character itself otherwise
Quoted(s, i) ==
    CASE s[i] = Ch.quote     -> <<Ch.backslash, Ch.quote>>
      [] s[i] = Ch.backslash -> <<Ch.backslash, Ch.backslash>>
      [] s[i] = Ch.bs        -> <<Ch.backslash, Ch.b>>
      [] s[i] = Ch.ff        -> <<Ch.backslash, Ch.f>>
      [] s[i] = Ch.lf        -> <<Ch.backslash, Ch.n>>
      [] s[i] = Ch.cr        -> <<Ch.backslash, Ch.r>>
      [] s[i] = Ch.tab       -> <<Ch.backslash, Ch.t>>
      [] OTHER ->
           IF Control(s[i]) THEN UnicodeEscape(s[i])
           ELSE IF HighSurrogate(s[i])
           THEN (IF i < Len(s) /\ LowSurrogate(s[i + 1]) THEN <<s[i]>>
                 ELSE UnicodeEscape(s[i]))
           ELSE IF LowSurrogate(s[i])
           THEN (IF i > 1 /\ HighSurrogate(s[i - 1]) THEN <<s[i]>>
                 ELSE UnicodeEscape(s[i]))
           ELSE <<s[i]>>

\* QuoteJSONString: the literal of string s
Quote(s) ==
    <<Ch.quote>> \o Flat([i \in 1..Len(s) |-> Quoted(s, i)], 1, Len(s))
                 \o <<Ch.quote>>

\* JSON.stringify({ key: s }) for a string s
StringifyField(key, s) ==
    <<Ch.lbrace>> \o Quote(key) \o <<Ch.colon>> \o Quote(s) \o <<Ch.rbrace>>

\* ------------------------------------------------------------ the handler
Response(statusCode, body) == [statusCode |-> statusCode, body |-> body]
NoResponse == Response(0, <<>>)

\* the fields of process.env the handler reads; "" is an unset variable
Env(success, cancel) == [SUCCESS_URL |-> success, CANCEL_URL |-> cancel]

\* event.body || '{}' : an absent body, or the empty string, is replaced by
\* "{}"; any other string, one of whitespace alone included, is truthy
BodyText(ev) ==
    IF ev.body.present /\ ev.body.text /= <<>>
    THEN ev.body.text
    \* {}
    ELSE <<123, 125>>

\* one element of line_items (the arrow function of items.map)
LineItem(item) ==
    [price_data |-> [currency     |-> "usd",
                     \* name
                     product_data |-> [name |-> Get(item, <<110, 97, 109,
                             101>>)],
                     \* price
                     unit_amount  |-> Get(item, <<112, 114, 105, 99, 101>>)],
     \* quantity
     quantity   |-> Or(Get(item, <<113, 117, 97, 110, 116, 105, 116, 121>>
           ), One)]

\* a map that builds its result back to front
MapLineItems_reversed(items) ==
    [i \in 1..Len(items) |-> LineItem(items[Len(items) + 1 - i])]

\* items.map(...) when no element throws
MapLineItems(items) == [i \in 1..Len(items) |-> LineItem(items[i])]

\* item.name on a null element throws; JSON.parse yields no undefined element
MapThrows(items) == \E i \in 1..Len(items) : Nullish(items[i])

\* the argument of stripe.checkout.sessions.create
CreateArgs(items, penv) ==
    [payment_method_types |-> <<"card">>,
     line_items  |-> items,
     mode        |-> "payment",
     success_url |-> IF penv.SUCCESS_URL /= "" THEN penv.SUCCESS_URL
                     ELSE "https://example.com/success",
     cancel_url  |-> IF penv.CANCEL_URL /= "" THEN penv.CANCEL_URL
                     ELSE "https://example.com/cancel"]
NoArgs == CreateArgs(<<>>, Env("", ""))

\* a catch block that blames the caller
Caught_badRequest(error) ==
    [kind |-> "return",
     \* error
     response |-> Response(400, StringifyField(<<101, 114, 114, 111, 114>>
           , error.message)),
     logged |-> <<error>>, parsed |-> TRUE, line_items |-> <<>>,
     args |-> NoArgs]

\* the catch block: one console.error, then the 500 response; every throwing
\* statement of the try block comes after the call of JSON.parse
Caught(error) ==
    [kind |-> "return",
     \* error
     response |-> Response(500, StringifyField(<<101, 114, 114, 111, 114>>
           , error.message)),
     logged |-> <<error>>, parsed |-> TRUE, line_items |-> <<>>,
     args |-> NoArgs]

Returned(resp, didParse) ==
    [kind |-> "return", response |-> resp,
     logged |-> <<>>, parsed |-> didParse, line_items |-> <<>>,
     args |-> NoArgs]

Awaiting(items, penv) ==
    [kind |-> "await", response |-> NoResponse,
     logged |-> <<>>, parsed |-> TRUE, line_items |-> items,
     args |-> CreateArgs(items, penv)]

\* a gate that lets a request without a method through
IsPost_lax(ev) == ~ev.httpMethod.present \/ ev.httpMethod.v = "POST"

\* event.httpMethod === 'POST'
IsPost(ev) == ev.httpMethod.present /\ ev.httpMethod.v = "POST"

\* the message of the 400 response
ItemsNotArray ==
    \* Invalid payload: items must be an array
    <<73, 110, 118, 97, 108, 105, 100, 32, 112, 97, 121, 108, 111, 97, 100,
      58, 32, 105, 116, 101, 109, 115, 32, 109, 117, 115, 116, 32, 98, 101,
      32, 97, 110, 32, 97, 114, 114, 97, 121>>
\* JSON.stringify({ error: 'Invalid payload: items must be an array' })
BadItemsBody == StringifyField(<<101, 114, 114, 111, 114>>, ItemsNotArray)
\* the TypeError of `const { items } = null`
DestructureNull ==
    \* Cannot destructure property 'items' of 'JSON.parse(...)' as it is null.
    <<67, 97, 110, 110, 111, 116, 32, 100, 101, 115, 116, 114, 117, 99, 116,
      117, 114, 101, 32, 112, 114, 111, 112, 101, 114, 116, 121, 32, 39, 105,
      116, 101, 109, 115, 39, 32, 111, 102, 32, 39, 74, 83, 79, 78, 46, 112,
      97, 114, 115, 101, 40, 46, 46, 46, 41, 39, 32, 97, 115, 32, 105, 116,
      32, 105, 115, 32, 110, 117, 108, 108, 46>>
\* the TypeError of `item.name` on a null item
ReadNameOfNull ==
    \* Cannot read properties of null (reading 'name')
    <<67, 97, 110, 110, 111, 116, 32, 114, 101, 97, 100, 32, 112, 114, 111,
      112, 101, 114, 116, 105, 101, 115, 32, 111, 102, 32, 110, 117, 108,
      108, 32, 40, 114, 101, 97, 100, 105, 110, 103, 32, 39, 110, 97, 109,
      101, 39, 41>>

\* lines 36-54: the transform and the provider call, for an array `items`
Transform(items, penv) ==
    IF MapThrows(items.elems)
    THEN Caught(Error("TypeError", ReadNameOfNull))
    ELSE Awaiting(MapLineItems(items.elems), penv)

\* lines 29-34: the shape check on the destructured `items`
ShapeCheck(items, penv) ==
    IF ~IsArray(items)
    THEN Returned(Response(400, BadItemsBody), TRUE)
    ELSE Transform(items, penv)

\* line 28, after JSON.parse: r is its outcome; destructuring null throws
Destructure(r, penv) ==
    IF ~r.ok THEN Caught(Error("SyntaxError", r.msg))
    ELSE IF Nullish(r.val) THEN Caught(Error("TypeError", DestructureNull))
    \* items
    ELSE ShapeCheck(Get(r.val, <<105, 116, 101, 109, 115>>), penv)

\* The handler from its entry to its first suspension point or return.
\* `parsed` records whether JSON.parse was called.
HandlerSync(ev, penv) ==
    IF ~IsPost(ev)
    \* Method Not Allowed
    THEN Returned(Response(405, <<77, 101, 116, 104, 111, 100, 32, 78, 111,
            116, 32, 65, 108, 108, 111, 119, 101, 100>>), FALSE)
    ELSE Destructure(JSONparse(BodyText(ev)), penv)

\* The provider's promise
Pending        == [state |-> "pending",  url |-> <<>>, error |-> NoError]
Resolved(url)  == [state |-> "resolved", url |-> url, error |-> NoError]
Rejected(err)  == [state |-> "rejected", url |-> <<>>, error |-> err]
NoPromise      == [state |-> "none",     url |-> <<>>, error |-> NoError]

\* a continuation whose catch block does not log
HandlerResume_noLog(settled) ==
    IF settled.state = "resolved"
    \* url
    THEN Returned(Response(200, StringifyField(<<117, 114, 108>>
          , settled.url)), TRUE)
    \* error
    ELSE Returned(Response(500, StringifyField(<<101, 114, 114, 111, 114>>,
                                               settled.error.message)), TRUE)

\* a continuation that answers with the configured success URL
HandlerResume_successUrl(settled) ==
    IF settled.state = "resolved"
    THEN Returned(Response(200,
            \* url
            \* https://example.com/success
            StringifyField(<<117, 114, 108>>, <<104, 116, 116, 112, 115, 58,
                    47, 47, 101, 120, 97, 109, 112, 108, 101, 46, 99, 111,
                    109, 47, 115, 117, 99, 99, 101, 115, 115>>)), TRUE)
    ELSE Caught(settled.error)

\* The handler after `await`: the 200 response, or the catch block
HandlerResume(settled) ==
    IF settled.state = "resolved"
    \* url
    THEN Returned(Response(200, StringifyField(<<117, 114, 108>>
          , settled.url)), TRUE)
    ELSE Caught(settled.error)

\* ------------------------------------------------------------- the inputs
Present(x) == [present |-> TRUE, v |-> x]
Absent     == [present |-> FALSE, v |-> ""]
Body(text) == [present |-> TRUE, text |-> text]
NoBody     == [present |-> FALSE, text |-> <<>>]
Event(method, body) == [httpMethod |-> method, body |-> body]
NoEvent    == Event(Absent, NoBody)

\* {"name":"Widget","price":499,"quantity":q} for the JSON text q
WidgetQ(q) == <<123, 34, 110, 97, 109, 101, 34, 58, 34, 87, 105, 100, 103,
        101, 116, 34, 44, 34, 112, 114, 105, 99, 101, 34, 58, 52, 57, 57, 44,
        34, 113, 117, 97, 110, 116, 105, 116, 121, 34, 58>> \o q \o <<125>>
\* {"name":"Widget","price":499}
WidgetNoQ  == <<123, 34, 110, 97, 109, 101, 34, 58, 34, 87, 105, 100, 103,
        101, 116, 34, 44, 34, 112, 114, 105, 99, 101, 34, 58, 52, 57, 57,
        125>>
\* {"price":-4.5,"quantity":-2}
Nameless   == <<123, 34, 112, 114, 105, 99, 101, 34, 58, 45, 52, 46, 53, 44,
        34, 113, 117, 97, 110, 116, 105, 116, 121, 34, 58, 45, 50, 125>>
\* {"quantity":q} for the JSON text q
QuantityIs(q) == <<123, 34, 113, 117, 97, 110, 116, 105, 116, 121, 34, 58>>
      \o q \o <<125>>
\* {"name":n,"price":p} for the JSON texts n and p
Named(n, p) == <<123, 34, 110, 97, 109, 101, 34, 58>> \o n \o <<44, 34, 112,
        114, 105, 99, 101, 34, 58>> \o p \o <<125>>

\* items whose quantity is falsy or missing: 0, omitted, a literal too
\* small for a double (it reads as 0), null, false, the empty string, -0,
\* an item that is a string
Defaulted ==
    \* 0
    << WidgetQ(<<48>>),
       WidgetNoQ,
       \* 1e-400
       QuantityIs(<<49, 101, 45, 52, 48, 48>>),
       \* null
       QuantityIs(<<110, 117, 108, 108>>),
       \* false
       QuantityIs(<<102, 97, 108, 115, 101>>),
       \* ""
       QuantityIs(<<34, 34>>),
       \* -0
       QuantityIs(<<45, 48>>),
       \* "x"
       <<34, 120, 34>> >>

\* items whose quantity is truthy: 3, -2, true, a string, a fraction, an
\* array, an object, a literal too large for a double (it reads as
\* Infinity)
Passed ==
    \* 3
    << WidgetQ(<<51>>),
       Nameless,
       \* true
       QuantityIs(<<116, 114, 117, 101>>),
       \* "2"
       QuantityIs(<<34, 50, 34>>),
       \* 2.5
       QuantityIs(<<50, 46, 53>>),
       \* []
       QuantityIs(<<91, 93>>),
       \* {"0":0}
       QuantityIs(<<123, 34, 48, 34, 58, 48, 125>>),
       \* 1e400
       QuantityIs(<<49, 101, 52, 48, 48>>) >>

\* items that differ in name and price: a plain one, one without a name, a
\* name with escapes and a price beyond the doubles, the same name written
\* with other escapes (and U+00E9 as itself) and a price that is no double,
\* a name that is an object and a price that is a string, an empty name and
\* -0, an item that is an array, an empty item
Priced ==
    << WidgetNoQ,
       Nameless,
       \* "\u0041\b\u00e9\ud83d"
       \* 1e400
       Named(<<34, 92, 117, 48, 48, 52, 49, 92, 98, 92, 117, 48, 48, 101, 57,
               92, 117, 100, 56, 51, 100, 34>>, <<49, 101, 52, 48, 48>>),
       \* "A\u0008
       \* \uD83D"
       \* 9007199254740993
       Named(<<34, 65, 92, 117, 48, 48, 48, 56>> \o <<233>> \o <<92, 117, 68,
               56, 51, 68, 34>>, <<57, 48, 48, 55, 49, 57, 57, 50, 53, 52,
               55, 52, 48, 57, 57, 51>>),
       \* {"b":1,"1":2}
       \* "4.99"
       Named(<<123, 34, 98, 34, 58, 49, 44, 34, 49, 34, 58, 50, 125>>, <<34,
               52, 46, 57, 57, 34>>),
       \* ""
       \* -0.0e7
       Named(<<34, 34>>, <<45, 48, 46, 48, 101, 55>>),
       \* [1]
       <<91, 49, 93>>,
       \* {}
       <<123, 125>> >>

\* a null element, alone and after another item
NullAlone == << <<110, 117, 108, 108>> >>
\* null
NullLast  == << WidgetNoQ, <<110, 117, 108, 108>> >>

Carts == {Defaulted, Passed, Priced, NullAlone, NullLast}

\* the first MaxItems items of a cart
Cut(c) == SubSeq(c, 1, IF MaxItems < Len(c) THEN MaxItems ELSE Len(c))

RECURSIVE JoinItems(_)
JoinItems(its) ==
    IF its = <<>> THEN <<>>
    ELSE IF Len(its) = 1 THEN its[1]
    ELSE its[1] \o <<Ch.comma>> \o JoinItems(Tail(its))

\* {"items":[ ... ]}
ItemsBody(its) == <<123, 34, 105, 116, 101, 109, 115, 34, 58, 91>>
      \o JoinItems(its) \o <<93, 125>>

\* {"items": v}
ItemsIs(v) == <<123, 34, 105, 116, 101, 109, 115, 34, 58, 32>> \o v \o <<
        125>>

\* bodies with an array `items`: no item, and the carts
ArrayBodies == {ItemsBody(<<>>)} \cup {ItemsBody(Cut(c)) : c \in Carts}

\* Bodies that are not well-formed JSON, each with the message Node 20
\* gives for it: cut short, a stray token, text after the value, whitespace
\* alone, a string that ends in a backslash, a later property without its
\* colon, a bare word in the middle of a longer text
Malformed(text, message) == [text |-> text, message |-> message]
MalformedCases ==
    \* {
    { Malformed(<<123>>,
        \* Expected property name or '}' in JSON at position 1
        <<69, 120, 112, 101, 99, 116, 101, 100, 32, 112, 114, 111, 112, 101,
          114, 116, 121, 32, 110, 97, 109, 101, 32, 111, 114, 32, 39, 125,
          39, 32, 105, 110, 32, 74, 83, 79, 78, 32, 97, 116, 32, 112, 111,
          115, 105, 116, 105, 111, 110, 32, 49>>),
      \* {"items":[}
      Malformed(<<123, 34, 105, 116, 101, 109, 115, 34, 58, 91, 125>>,
        \* Unexpected token '}', "{"items":[}" is not valid JSON
        <<85, 110, 101, 120, 112, 101, 99, 116, 101, 100, 32, 116, 111, 107,
          101, 110, 32, 39, 125, 39, 44, 32, 34, 123, 34, 105, 116, 101, 109,
          115, 34, 58, 91, 125, 34, 32, 105, 115, 32, 110, 111, 116, 32, 118,
          97, 108, 105, 100, 32, 74, 83, 79, 78>>),
      \* {}oops
      Malformed(<<123, 125, 111, 111, 112, 115>>,
        \* Unexpected non-whitespace character after JSON at position 2
        <<85, 110, 101, 120, 112, 101, 99, 116, 101, 100, 32, 110, 111, 110,
          45, 119, 104, 105, 116, 101, 115, 112, 97, 99, 101, 32, 99, 104,
          97, 114, 97, 99, 116, 101, 114, 32, 97, 102, 116, 101, 114, 32, 74,
          83, 79, 78, 32, 97, 116, 32, 112, 111, 115, 105, 116, 105, 111,
          110, 32, 50>>),
      Malformed(<<Ch.space>>,
        \* Unexpected end of JSON input
        <<85, 110, 101, 120, 112, 101, 99, 116, 101, 100, 32, 101, 110, 100,
          32, 111, 102, 32, 74, 83, 79, 78, 32, 105, 110, 112, 117, 116>>),
      Malformed(<<Ch.tab, Ch.lf>>,
        \* Unexpected end of JSON input
        <<85, 110, 101, 120, 112, 101, 99, 116, 101, 100, 32, 101, 110, 100,
          32, 111, 102, 32, 74, 83, 79, 78, 32, 105, 110, 112, 117, 116>>),
      \* {"items":"\
      Malformed(<<123, 34, 105, 116, 101, 109, 115, 34, 58, 34, 92>>,
        \* Unexpected end of JSON input
        <<85, 110, 101, 120, 112, 101, 99, 116, 101, 100, 32, 101, 110, 100,
          32, 111, 102, 32, 74, 83, 79, 78, 32, 105, 110, 112, 117, 116>>),
      \* {"items":[],"x" 1}
      Malformed(<<123, 34, 105, 116, 101, 109, 115, 34, 58, 91, 93, 44, 34,
              120, 34, 32, 49, 125>>,
        \* Unexpected number in JSON at position 16
        <<85, 110, 101, 120, 112, 101, 99, 116, 101, 100, 32, 110, 117, 109,
          98, 101, 114, 32, 105, 110, 32, 74, 83, 79, 78, 32, 97, 116, 32,
          112, 111, 115, 105, 116, 105, 111, 110, 32, 49, 54>>),
      \* {"items":[{"name":Widget,"price":499}]}
      Malformed(<<123, 34, 105, 116, 101, 109, 115, 34, 58, 91, 123, 34, 110,
              97, 109, 101, 34, 58, 87, 105, 100, 103, 101, 116, 44, 34, 112,
              114, 105, 99, 101, 34, 58, 52, 57, 57, 125, 93, 125>>,
        \* Unexpected token 'W', ...":[{"name":Widget,"pr"... is not valid JSO
        \* N
        <<85, 110, 101, 120, 112, 101, 99, 116, 101, 100, 32, 116, 111, 107,
          101, 110, 32, 39, 87, 39, 44, 32, 46, 46, 46, 34, 58, 91, 123, 34,
          110, 97, 109, 101, 34, 58, 87, 105, 100, 103, 101, 116, 44, 34,
          112, 114, 34, 46, 46, 46, 32, 105, 115, 32, 110, 111, 116, 32, 118,
          97, 108, 105, 100, 32, 74, 83, 79, 78>>) }
MalformedBodies == {c.text : c \in MalformedCases}

\* well-formed bodies whose `items` is not an array
ShapelessBodies ==
    \* {}
    \* 42
    \* "x"
    \* []
    { <<123, 125>>, <<52, 50>>, <<34, 120, 34>>, <<91, 93>>,
      \* null
      <<110, 117, 108, 108>>,
      \* null
      \* "x"
      ItemsIs(<<110, 117, 108, 108>>), ItemsIs(<<34, 120, 34>>),
      \* 42
      \* {}
      ItemsIs(<<52, 50>>), ItemsIs(<<123, 125>>) }

Bodies ==
    {NoBody, Body(<<>>)} \cup
    {Body(t) : t \in MalformedBodies \cup ShapelessBodies \cup ArrayBodies}

\* the bodies tried behind a method other than POST
GateBodies ==
    \* {
    {NoBody, Body(<<>>), Body(<<123>>), Body(ItemsBody(Cut(Passed)))}

Events ==
    {Event(Present("GET"), b) : b \in GateBodies} \cup
    {Event(Absent, b) : b \in {NoBody, Body(ItemsBody(Cut(Passed)))}} \cup
    {Event(Present("POST"), b) : b \in Bodies}

\* https://checkout.stripe.test/c/1
Urls == { <<104, 116, 116, 112, 115, 58, 47, 47, 99, 104, 101, 99, 107, 111,
        117, 116, 46, 115, 116, 114, 105, 112, 101, 46, 116, 101, 115, 116,
        47, 99, 47, 49>>,
          \* https://checkout.stripe.test/c/2
          <<104, 116, 116, 112, 115, 58, 47, 47, 99, 104, 101, 99, 107, 111,
            117, 116, 46, 115, 116, 114, 105, 112, 101, 46, 116, 101, 115,
            116, 47, 99, 47, 50>> }
\* Your card was declined.
ProviderErrors == {Error("StripeCardError", <<89, 111, 117, 114, 32, 99, 97,
        114, 100, 32, 119, 97, 115, 32, 100, 101, 99, 108, 105, 110, 101,
        100, 46>>)}
\* SUCCESS_URL unset (the fallback literal is used), CANCEL_URL set
Envs == {Env("", "https://shop.test/cart")}

\* the ways the provider's promise can be settled
Settled ==
    {Resolved(u) : u \in Urls} \cup {Rejected(e) : e \in ProviderErrors}

\* HandlerSync over the requests and environments above
SyncTable == [ev \in Events, e \in Envs |-> HandlerSync(ev, e)]
\* HandlerResume over the settled promises above
ResumeTable == [p \in Settled |-> HandlerResume(p)]

\* ---------------------------------------------------------------- state
VARIABLES
    stripe,      \* the module-level provider client
    env,         \* process.env
    pc,          \* per invocation: "idle", "awaiting", "done"
    event,       \* per invocation: the request it was called with
    parsed,      \* per invocation: whether JSON.parse was called
    line_items,  \* per invocation: the const line_items
    calls,       \* per invocation: arguments of its sessions.create calls
    promise,     \* per invocation: the promise sessions.create returned
    response,    \* per invocation: the value the handler returned
    logs         \* per invocation: the errors it passed to console.error

vars == <<stripe, env, pc, event, parsed, line_items, calls, promise,
          response, logs>>

\* a binding at module level: one slot for all calls
BindLocal_shared(f, i, v) == [j \in DOMAIN f |-> v]

\* a const declared in the handler body is a fresh binding in every call
BindLocal(f, i, v) == [f EXCEPT ![i] = v]

Init ==
    /\ stripe = [apiKey |-> "sk_test"]
    /\ env \in Envs
    /\ pc = [i \in Invocations |-> "idle"]
    /\ event = [i \in Invocations |-> NoEvent]
    /\ parsed = [i \in Invocations |-> FALSE]
    /\ line_items = [i \in Invocations |-> <<>>]
    /\ calls = [i \in Invocations |-> <<>>]
    /\ promise = [i \in Invocations |-> NoPromise]
    /\ response = [i \in Invocations |-> NoResponse]
    /\ logs = [i \in Invocations |-> <<>>]

\* what a run of handler code (r) leaves behind in invocation i
Apply(i, r) ==
    /\ logs' = [logs EXCEPT ![i] = @ \o r.logged]
    /\ IF r.kind = "await"
       THEN /\ calls' = [calls EXCEPT ![i] = Append(@, r.args)]
            /\ promise' = [promise EXCEPT ![i] = Pending]
            /\ pc' = [pc EXCEPT ![i] = "awaiting"]
            /\ UNCHANGED response
       ELSE /\ response' = [response EXCEPT ![i] = r.response]
            /\ pc' = [pc EXCEPT ![i] = "done"]
            /\ UNCHANGED <<calls, promise>>

\* the runtime calls exports.handler(ev); the code runs up to its first await
Invoke(i) ==
    /\ pc[i] = "idle"
    /\ \E ev \in Events :
         LET r == SyncTable[ev, env] IN
         /\ event' = [event EXCEPT ![i] = ev]
         /\ parsed' = [parsed EXCEPT ![i] = r.parsed]
         /\ line_items' = BindLocal(line_items, i, r.line_items)
         /\ Apply(i, r)
    /\ UNCHANGED <<stripe, env>>

\* the provider answers with a session
ProviderResolve(i) ==
    /\ promise[i].state = "pending"
    /\ \E u \in Urls : promise' = [promise EXCEPT ![i] = Resolved(u)]
    /\ UNCHANGED <<stripe, env, pc, event, parsed, line_items, calls,
                   response, logs>>

\* the provider call fails
ProviderReject(i) ==
    /\ promise[i].state = "pending"
    /\ \E e \in ProviderErrors :
         promise' = [promise EXCEPT ![i] = Rejected(e)]
    /\ UNCHANGED <<stripe, env, pc, event, parsed, line_items, calls,
                   response, logs>>

\* a continuation that does not wait for the promise
Resume_eager(i) ==
    /\ pc[i] = "awaiting"
    /\ Apply(i, HandlerResume(promise[i]))
    /\ UNCHANGED <<stripe, env, event, parsed, line_items>>

\* the continuation after `await` runs once the promise is settled
Resume(i) ==
    /\ pc[i] = "awaiting"
    /\ promise[i] \in Settled
    /\ Apply(i, ResumeTable[promise[i]])
    /\ UNCHANGED <<stripe, env, event, parsed, line_items>>

Next ==
    \E i \in Invocations :
        \/ Invoke(i)
        \/ ProviderResolve(i)
        \/ ProviderReject(i)
        \/ Resume(i)

Spec == Init /\ [][Next]_vars

\* the event loop runs a continuation whose promise is settled
FairSpec == Spec /\ \A i \in Invocations : WF_vars(Resume(i))

\* ------------------------------------------------------------ type check
TypeOK ==
    /\ env \in Envs
    /\ \A i \in Invocations :
         /\ pc[i] \in {"idle", "awaiting", "done"}
         /\ event[i] \in Events \cup {NoEvent}
         /\ promise[i].state \in {"none", "pending", "resolved", "rejected"}
         /\ response[i].statusCode \in {0, 200, 400, 405, 500}

\* ----------------------------------------------------- reading a request
\* JSON.parse over the texts the requests above hand to it
ParseTable ==
    [t \in {BodyText(ev) : ev \in Events \cup {NoEvent}} |-> JSONparse(t)]

\* is the request of invocation i a POST
PostReq(i) == event[i].httpMethod.present /\ event[i].httpMethod.v = "POST"
\* the text handed to JSON.parse and what it yields
ReqText(i) == BodyText(event[i])
ReqParse(i) == ParseTable[ReqText(i)]
\* `items` of the parsed body (undefined when the body is not an object)
ItemsOf(v) == Get(v, <<105, 116, 101, 109, 115>>)
ReqItems(i) == ItemsOf(ReqParse(i).val)
Started(i) == pc[i] /= "idle"

\* ------------------------------------------------------------------ C1
\* C1: a request whose method is not POST (or has no method), whatever its
\* body, is answered 405 "Method Not Allowed" in plain text, with no call of
\* JSON.parse, no provider call and no error log.
C1_MethodGate ==
    \A i \in Invocations :
        Started(i) /\ ~PostReq(i) =>
            /\ pc[i] = "done"
            \* Method Not Allowed
            /\ response[i] = Response(405, <<77, 101, 116, 104, 111, 100, 32,
                    78, 111, 116, 32, 65, 108, 108, 111, 119, 101, 100>>)
            /\ ~parsed[i]
            /\ calls[i] = <<>> /\ promise[i] = NoPromise
            /\ logs[i] = <<>>

C1_Witness ==
    \E i \in Invocations :
        /\ ~event[i].httpMethod.present
        /\ event[i].body = Body(ItemsBody(Cut(Passed)))
        /\ response[i].statusCode = 405

\* ------------------------------------------------------------------ C2
\* C2: a POST whose body is absent, empty or well-formed JSON of any kind, and
\* whose `items` is not an array, is answered 400 with the fixed message, with
\* no provider call and no error log.
C2_ShapeCheck ==
    \A i \in Invocations :
        Started(i) /\ PostReq(i) /\ ReqParse(i).ok
                   /\ ReqItems(i).t /= "arr" =>
            /\ pc[i] = "done"
            /\ response[i].statusCode = 400
            /\ response[i].body =
                 \* {"error":"Invalid payload: items must be an array"}
                 <<123, 34, 101, 114, 114, 111, 114, 34, 58, 34, 73, 110,
                   118, 97, 108, 105, 100, 32, 112, 97, 121, 108, 111, 97,
                   100, 58, 32, 105, 116, 101, 109, 115, 32, 109, 117, 115,
                   116, 32, 98, 101, 32, 97, 110, 32, 97, 114, 114, 97, 121,
                   34, 125>>
            /\ calls[i] = <<>>
            /\ logs[i] = <<>>

\* ------------------------------------------------------------------ C3
\* C3: a POST whose non-empty body is not well-formed JSON is answered 500
\* (never 400) with a JSON body whose `error` is the parse error's message,
\* logs exactly that one error and makes no provider call.  The message is
\* the one Node 20 gives for the body.
C3_Failed(i, message) ==
    /\ pc[i] = "done"
    \* error
    /\ response[i] = Response(500, StringifyField(<<101, 114, 114, 111, 114>>
          , message))
    /\ logs[i] = <<Error("SyntaxError", message)>>
    /\ calls[i] = <<>>

C3_MalformedIs500 ==
    \A i \in Invocations :
        Started(i) /\ PostReq(i) /\ event[i].body.present
                   /\ event[i].body.text /= <<>> =>
            /\ ~ReqParse(i).ok => C3_Failed(i, ReqParse(i).msg)
            /\ \A c \in MalformedCases :
                 event[i].body.text = c.text => C3_Failed(i, c.message)

\* a string that ends in a backslash, and a later property without its colon
C3_Witness ==
    \E i, j \in Invocations :
        /\ PostReq(i)
        \* {"items":"\
        /\ event[i].body = Body(<<123, 34, 105, 116, 101, 109, 115, 34, 58,
                34, 92>>)
        /\ response[i].statusCode = 500
        /\ response[i].body =
             \* {"error":"Unexpected end of JSON input"}
             <<123, 34, 101, 114, 114, 111, 114, 34, 58, 34, 85, 110, 101,
               120, 112, 101, 99, 116, 101, 100, 32, 101, 110, 100, 32, 111,
               102, 32, 74, 83, 79, 78, 32, 105, 110, 112, 117, 116, 34,
               125>>
        /\ Len(logs[i]) = 1
        /\ PostReq(j)
        \* {"items":[],"x" 1}
        /\ event[j].body = Body(<<123, 34, 105, 116, 101, 109, 115, 34, 58,
                91, 93, 44, 34, 120, 34, 32, 49, 125>>)
        /\ response[j].statusCode = 500
        /\ response[j].body =
             \* {"error":"Unexpected number in JSON at position 16"}
             <<123, 34, 101, 114, 114, 111, 114, 34, 58, 34, 85, 110, 101,
               120, 112, 101, 99, 116, 101, 100, 32, 110, 117, 109, 98, 101,
               114, 32, 105, 110, 32, 74, 83, 79, 78, 32, 97, 116, 32, 112,
               111, 115, 105, 116, 105, 111, 110, 32, 49, 54, 34, 125>>
        /\ Len(logs[j]) = 1

\* ------------------------------------------------------------------ C4
\* C4: when the provider call of a POST with an array `items` rejects, the
\* invocation is answered 500 with that failure's message and has logged
\* exactly that one error; it is never answered 200.
C4_RejectIs500 ==
    \A i \in Invocations :
        promise[i].state = "rejected" =>
            /\ PostReq(i) /\ ReqItems(i).t = "arr"
            /\ response[i].statusCode /= 200
            /\ pc[i] = "done" =>
                 /\ response[i] =
                      \* error
                      Response(500, StringifyField(<<101, 114, 114, 111,
                              114>>,
                                                   promise[i].error.message))
                 /\ logs[i] = <<promise[i].error>>

C4_Witness ==
    \E i \in Invocations :
        /\ pc[i] = "done"
        /\ promise[i] =
             \* Your card was declined.
             Rejected(Error("StripeCardError", <<89, 111, 117, 114, 32, 99,
                     97, 114, 100, 32, 119, 97, 115, 32, 100, 101, 99, 108,
                     105, 110, 101, 100, 46>>))
        /\ response[i] =
             \* {"error":"Your card was declined."}
             Response(500, <<123, 34, 101, 114, 114, 111, 114, 34, 58, 34,
                     89, 111, 117, 114, 32, 99, 97, 114, 100, 32, 119, 97,
                     115, 32, 100, 101, 99, 108, 105, 110, 101, 100, 46, 34,
                     125>>)
        /\ Len(logs[i]) = 1

\* ------------------------------------------------------------------ C5
\* C5: when the provider call of a POST with an array `items` (the empty
\* array included, sent as an empty line-items list) resolves, the invocation
\* is answered 200 with exactly the session's URL and logs nothing; 200 is
\* returned on no other path.
C5_ArrayItems(p) == p.ok /\ ItemsOf(p.val).t = "arr"

C5_ResolveIs200 ==
    \A i \in Invocations :
        /\ pc[i] = "done" /\ promise[i].state = "resolved" =>
              /\ response[i] =
                   \* url
                   Response(200, StringifyField(<<117, 114, 108>>,
                                                promise[i].url))
              /\ logs[i] = <<>>
        /\ response[i].statusCode = 200 =>
              /\ PostReq(i) /\ C5_ArrayItems(ReqParse(i))
              /\ Len(calls[i]) = 1
              /\ promise[i].state = "resolved"
        /\ Started(i) /\ PostReq(i) /\ ReqText(i) = ItemsBody(<<>>) =>
              /\ Len(calls[i]) = 1 /\ calls[i][1].line_items = <<>>

C5_Witness ==
    \E i \in Invocations :
        /\ event[i].body = Body(ItemsBody(<<>>))
        /\ Len(calls[i]) = 1 /\ calls[i][1].line_items = <<>>
        \* https://checkout.stripe.test/c/2
        /\ promise[i] = Resolved(<<104, 116, 116, 112, 115, 58, 47, 47, 99,
                104, 101, 99, 107, 111, 117, 116, 46, 115, 116, 114, 105,
                112, 101, 46, 116, 101, 115, 116, 47, 99, 47, 50>>)
        /\ response[i] =
             \* {"url":"https://checkout.stripe.test/c/2"}
             Response(200, <<123, 34, 117, 114, 108, 34, 58, 34, 104, 116,
                     116, 112, 115, 58, 47, 47, 99, 104, 101, 99, 107, 111,
                     117, 116, 46, 115, 116, 114, 105, 112, 101, 46, 116,
                     101, 115, 116, 47, 99, 47, 50, 34, 125>>)

\* ------------------------------------------------------------------ C6
\* C6: the line-items list passed to the provider has as many entries as the
\* request's `items`, in the same order, and entry k has currency 'usd' and
\* the name and price of item k as JSON.parse read them, whatever they are
\* (a negative or fractional price, a price beyond the doubles, a name or a
\* price of another type, or none).
C6_Mirrors(li, items) ==
    /\ Len(li) = Len(items)
    /\ \A k \in 1..Len(li) :
         /\ li[k].price_data.currency = "usd"
         \* name
         /\ li[k].price_data.product_data.name = Get(items[k], <<110, 97,
                 109, 101>>)
         \* price
         /\ li[k].price_data.unit_amount = Get(items[k], <<112, 114, 105, 99,
                 101>>)

C6_LineItemsMirrorItems ==
    \A i \in Invocations :
        \A c \in 1..Len(calls[i]) :
            C6_Mirrors(calls[i][c].line_items, ReqItems(i).elems)

\* the name and the price sent for entry k of list li
C6_Sent(li, k, name, price) ==
    /\ li[k].price_data.currency = "usd"
    /\ li[k].price_data.product_data.name = name
    /\ li[k].price_data.unit_amount = price

\* the cart of items that differ in name and price: 499; no name and -4.5;
\* one name written with two sets of escapes, with 1e400 (Infinity) and
\* 9007199254740993 (the double 9007199254740992); an object and a string;
\* the empty string and -0; an array as an item
C6_Witness ==
    \E i \in Invocations :
        /\ event[i].body = Body(ItemsBody(Cut(Priced)))
        /\ Len(calls[i]) = 1
        /\ Len(calls[i][1].line_items) = Len(Cut(Priced))
        \* Widget
        /\ C6_Sent(calls[i][1].line_items, 1, Str(<<87, 105, 100, 103, 101,
                116>>),
             Finite(FALSE, <<8, 7, 7, 8, 5, 0, 0, 8, 3, 6, 1, 6, 3, 5, 8, 4>>,
                    -44))
        /\ C6_Sent(calls[i][1].line_items, 2, Undefined,
             Finite(TRUE, <<5, 0, 6, 6, 5, 4, 9, 5, 8, 0, 7, 9, 1, 8, 0, 8>>,
                    -50))
        /\ C6_Sent(calls[i][1].line_items, 3, Str(<<65, 8, 233, 55357>>),
             Infinite(FALSE))
        /\ C6_Sent(calls[i][1].line_items, 4, Str(<<65, 8, 233, 55357>>),
             Finite(FALSE, <<4, 5, 0, 3, 5, 9, 9, 6, 2, 7, 3, 7, 0, 4, 9, 6>>,
                    1))
        /\ C6_Sent(calls[i][1].line_items, 5,
             \* 1
             Obj(<< [k |-> <<49>>, val |->
                       Finite(FALSE,
                         <<4, 5, 0, 3, 5, 9, 9, 6, 2, 7, 3, 7, 0, 4, 9, 6>>,
                         -51)],
                    \* b
                    [k |-> <<98>>, val |-> One] >>),
             \* 4.99
             Str(<<52, 46, 57, 57>>))
        /\ C6_Sent(calls[i][1].line_items, 6, Str(<<>>), Zero(TRUE))
        /\ C6_Sent(calls[i][1].line_items, 7, Undefined, Undefined)

\* ------------------------------------------------------------------ C7
\* C7: a line item's quantity is the item's quantity when that is truthy and
\* 1 otherwise.  The falsy values JSON.parse can yield are undefined (the
\* property is omitted), null, false, 0, -0 and the empty string; every
\* other value, a negative number included, is passed through unchanged.
C7_Falsy == {Undefined, Null, False, Zero(FALSE), Zero(TRUE), Str(<<>>)}

C7_Quantity(q, out) == out = IF q \in C7_Falsy THEN One ELSE q

C7_Quantities(li, items) ==
    \A k \in 1..Len(li) :
        \* quantity
        C7_Quantity(Get(items[k], <<113, 117, 97, 110, 116, 105, 116, 121>>),
                    li[k].quantity)

C7_QuantityDefault ==
    \A i \in Invocations :
        \A c \in 1..Len(calls[i]) :
            C7_Quantities(calls[i][c].line_items, ReqItems(i).elems)

\* the cart of falsy quantities (0, omitted, 1e-400, null, false, "", -0)
\* and the cart of truthy ones (3, -2, true, "2", 2.5, [], {"0":0})
C7_Witness ==
    \E i, j \in Invocations :
        /\ event[i].body = Body(ItemsBody(Cut(Defaulted)))
        /\ Len(calls[i]) = 1
        /\ Len(calls[i][1].line_items) = Len(Cut(Defaulted))
        /\ \A k \in 1..7 : calls[i][1].line_items[k].quantity = One
        /\ event[j].body = Body(ItemsBody(Cut(Passed)))
        /\ Len(calls[j]) = 1
        /\ calls[j][1].line_items[1].quantity =
             Finite(FALSE, <<6, 7, 5, 5, 3, 9, 9, 4, 4, 1, 0, 5, 5, 7, 4, 4>>,
                    -51)
        /\ calls[j][1].line_items[2].quantity =
             Finite(TRUE, <<4, 5, 0, 3, 5, 9, 9, 6, 2, 7, 3, 7, 0, 4, 9, 6>>,
                    -51)
        /\ calls[j][1].line_items[3].quantity = True
        \* 2
        /\ calls[j][1].line_items[4].quantity = Str(<<50>>)
        /\ calls[j][1].line_items[5].quantity =
             Finite(FALSE, <<5, 6, 2, 9, 4, 9, 9, 5, 3, 4, 2, 1, 3, 1, 2, 0>>,
                    -51)
        /\ calls[j][1].line_items[6].quantity = Arr(<<>>)
        /\ calls[j][1].line_items[7].quantity =
             \* 0
             Obj(<< [k |-> <<48>>, val |-> Zero(FALSE)] >>)

\* ------------------------------------------------------------------ C8
\* C8: an invocation calls the provider at most once, and only for a POST
\* whose body parsed, whose `items` is an array and whose items were all
\* transformed; no call is made on a path answered 405 or 400, none is
\* re-issued after a rejection, and a finished invocation that called the
\* provider ends with a session and 200 or with a rejection and 500.
C8_Checked(i, p) ==
    /\ p.ok
    /\ ItemsOf(p.val).t = "arr"
    /\ Len(line_items[i]) = Len(ItemsOf(p.val).elems)

C8_OneCallAfterChecks ==
    \A i \in Invocations :
        /\ Len(calls[i]) <= 1
        /\ calls[i] /= <<>> =>
              /\ PostReq(i) /\ parsed[i]
              /\ C8_Checked(i, ReqParse(i))
              /\ calls[i][1].line_items = line_items[i]
              /\ response[i].statusCode \notin {400, 405}
        /\ pc[i] = "done" /\ calls[i] /= <<>> =>
              \/ promise[i].state = "resolved" /\ response[i].statusCode = 200
              \/ promise[i].state = "rejected" /\ response[i].statusCode = 500

C8_Witness ==
    \E i \in Invocations :
        /\ pc[i] = "done"
        /\ Len(calls[i]) = 1
        /\ promise[i].state = "rejected"
        /\ response[i].statusCode = 500
        /\ \E j \in Invocations :
             /\ response[j].statusCode = 400 /\ calls[j] = <<>>

\* ------------------------------------------------------------------ C9
\* C9: with invocations interleaved at their provider calls, what an
\* invocation sends to the provider and what it answers is determined by its
\* own request and the outcome of its own provider call; a step of one
\* invocation leaves every other invocation's state alone, and the provider
\* client is never changed.
Local(i) == <<pc[i], event[i], parsed[i], line_items[i], calls[i],
              promise[i], response[i], logs[i]>>

C9_OwnResult(i) ==
    Started(i) =>
        LET r == SyncTable[event[i], env] IN
        /\ line_items[i] = r.line_items
        /\ calls[i] = IF r.kind = "await" THEN <<r.args>> ELSE <<>>
        /\ pc[i] = "done" =>
             response[i] = IF r.kind = "await"
                           THEN ResumeTable[promise[i]].response
                           ELSE r.response

C9_OneInvocationPerStep ==
    \A i, j \in Invocations :
        i /= j /\ Local(i)' /= Local(i) => Local(j)' = Local(j)

C9_Independent ==
    /\ [](\A i \in Invocations : C9_OwnResult(i))
    /\ [][C9_OneInvocationPerStep /\ stripe' = stripe]_vars

\* an invocation suspended at its provider call while another, with a
\* different request, has finished
C9_Witness ==
    \E i, j \in Invocations :
        /\ i /= j
        /\ pc[i] = "awaiting" /\ promise[i].state = "resolved"
        /\ pc[j] = "done" /\ promise[j].state = "rejected"
        /\ event[i].body = Body(ItemsBody(Cut(Passed)))
        /\ event[j].body = Body(ItemsBody(Cut(Priced)))
        /\ Len(calls[i][1].line_items) = Len(Cut(Passed))
        /\ Len(calls[j][1].line_items) = Len(Cut(Priced))

\* ------------------------------------------------------------------ C10
\* C10: the provider call is the only suspension point.  An invocation that
\* made no provider call is answered in the step that started it; while its
\* provider call is unsettled an invocation is suspended and has no answer;
\* once the call is settled the invocation is eventually answered, 200 after
\* a resolution and 500 after a rejection, and the answer never changes.
C10_Suspension(i) ==
    /\ pc[i] = "awaiting" => Len(calls[i]) = 1 /\ promise[i].state /= "none"
    /\ Started(i) /\ calls[i] = <<>> =>
          pc[i] = "done" /\ response[i].statusCode \in {400, 405, 500}
    /\ promise[i].state = "pending" =>
          pc[i] = "awaiting" /\ response[i] = NoResponse
    /\ pc[i] /= "done" => response[i] = NoResponse

C10_Answered(i) ==
    /\ pc[i] = "done"
    /\ promise[i].state = "resolved" => response[i].statusCode = 200
    /\ promise[i].state = "rejected" => response[i].statusCode = 500

C10_OnlyProviderSuspends ==
    /\ [](\A i \in Invocations : C10_Suspension(i))
    /\ [][\A i \in Invocations :
             pc[i] = "done" =>
                 pc'[i] = "done" /\ response'[i] = response[i]]_vars
    /\ \A i \in Invocations :
          (promise[i].state \in {"resolved", "rejected"}) ~> C10_Answered(i)

\* one invocation still suspended on an unsettled call while another has been
\* answered after its call settled
C10_Witness ==
    \E i, j \in Invocations :
        /\ pc[i] = "awaiting" /\ promise[i].state = "pending"
        /\ response[i] = NoResponse
        /\ pc[j] = "done" /\ promise[j].state = "resolved"
        /\ response[j].statusCode = 200
====
